---- MODULE Spec2Model ----
(***************************************************************************)
(* The scan analysis pipeline of the OMR application: anchor detection,    *)
(* coordinate mapping, bubble analysis, answer resolution, and the scanner *)
(* session (ScannerWidget) that sequences them with a background worker.   *)
(*                                                                         *)
(* Numbers.  Pixel values are integers 0..255.  A darkness_score is kept   *)
(* exactly, as the numerator 255*N - sum(pixels) of the fraction over      *)
(* 255*N, N being the number of pixels of the circular window (the same    *)
(* for every bubble of a run).  A confidence is kept in thousandths,       *)
(* rounded down; a threshold is kept in hundredths (0.3 is 30).            *)
(*                                                                         *)
(* Python dicts keep insertion order, and the code depends on it (max()    *)
(* returns the first maximal element): a dict is a sequence of             *)
(* <<key, value>> pairs with distinct keys.                                *)
(***************************************************************************)
EXTENDS Integers, Sequences, FiniteSets, TLC

VARIABLES
    current_image,      \* ScannerWidget.current_image: None or an image id
    anchors,            \* ScannerWidget.anchors: dict name -> anchor record
    omr_data,           \* ScannerWidget.omr_data: None or a layout document
    bubble_positions,   \* ScannerWidget.bubble_positions: dict q -> dict option -> <<x, y>>
    filled_threshold,   \* ScannerWidget.detector.filled_threshold (hundredths)
    analysis_results,   \* ScannerWidget.analysis_results: dict q -> dict option -> result
    answers,            \* ScannerWidget.answers: dict q -> option or None
    threads,            \* the WorkerThread objects alive, oldest first; the last is ScannerWidget.worker
    queue,              \* result_ready emissions queued for the GUI thread, in order
    buttons,            \* enabled state of process_btn, load_omr_btn, drag_mode_btn (+ checked)
    display,            \* ZoomableImageLabel: drag_mode_enabled, bubble_coordinates, dragging_bubble
    hist,               \* bookkeeping: user actions left, provenance of anchors and answers
    last,               \* bookkeeping: the handler that ran last
    fin,                \* input of the function under test (function specifications only)
    fout                \* its output

vars == <<current_image, anchors, omr_data, bubble_positions, filled_threshold,
          analysis_results, answers, threads, queue, buttons, display, hist, last,
          fin, fout>>

\* Python's None: the string where the other values are strings (an option
\* letter, an image id), the record where they are records
None == "None"
Null == [py |-> "None"]

(***************************************************************************)
(* Ordered dicts                                                           *)
(***************************************************************************)
Keys(d) == [i \in 1..Len(d) |-> d[i][1]]
KeySet(d) == {d[i][1] : i \in 1..Len(d)}
Has(d, k) == k \in KeySet(d)
Get(d, k) == d[CHOOSE i \in 1..Len(d) : d[i][1] = k][2]
\* d[k] = v: an existing key keeps its place, a new key goes last
Put(d, k, v) ==
    IF Has(d, k) THEN [i \in 1..Len(d) |-> IF d[i][1] = k THEN <<k, v>> ELSE d[i]]
    ELSE Append(d, <<k, v>>)

(***************************************************************************)
(* Configuration (config/app_config.py) and bounds                         *)
(***************************************************************************)
\* AppConfig.ANALYSIS_RADIUS is 18 px; the model samples a smaller window so
\* that the per-pixel loop stays checkable.  The bounds check, the circular
\* mask and the statistics are the code's for every radius.
ANALYSIS_RADIUS == 2
FILLED_THRESHOLD == 30
CONFIDENCE_GATE == 800
ANCHOR_MARGIN == 75
ANCHOR_SIZE == 31
ANCHOR_CONTOUR_MIN == 20
ANCHOR_CONTOUR_MAX == 50
ANCHOR_THRESHOLD == 127
LEGACY_MAX_DIST == 100
DRAG_BUBBLE_DEFAULT_RADIUS == 20

(***************************************************************************)
(* Images.  An image is [width, height, regions]; a region is a rectangle  *)
(* [x, y, w, h, lo, hi] of pixels, lo on even (x+y) and hi on odd (x+y)    *)
(* (a uniform patch when lo = hi); paper outside the regions is 255.       *)
(***************************************************************************)
InRegion(rg, x, y) == /\ rg.x <= x /\ x < rg.x + rg.w
                      /\ rg.y <= y /\ y < rg.y + rg.h

PixelOf(image, x, y) ==
    IF \E i \in 1..Len(image.regions) : InRegion(image.regions[i], x, y)
    THEN LET rg == image.regions[CHOOSE i \in 1..Len(image.regions) :
                                    InRegion(image.regions[i], x, y)]
         IN IF (x + y) % 2 = 0 THEN rg.lo ELSE rg.hi
    ELSE 255

\* gray[row, col] on the numpy array: a negative index counts from the end,
\* an index outside -size..size-1 raises IndexError.  <<v>> is the value read,
\* <<>> the exception.
IndexError == <<>>
GrayAt(image, row, col) ==
    IF row >= image.height \/ row < 0 - image.height
       \/ col >= image.width \/ col < 0 - image.width
    THEN IndexError
    ELSE <<PixelOf(image, col % image.width, row % image.height)>>

(***************************************************************************)
(* BubbleDetector.analyze_bubble                                           *)
(***************************************************************************)
BubbleAnalysisResult(d, f, c) == [darkness_score |-> d, is_filled |-> f, confidence |-> c]
SafeDefault == BubbleAnalysisResult(0, FALSE, 0)

\* the check without its lower bounds
OutOfBounds_UpperOnly(image, center_x, center_y, radius) ==
    \/ center_x + radius >= image.width
    \/ center_y + radius >= image.height

\* lines 76-77: the window leaves the image
OutOfBounds(image, center_x, center_y, radius) ==
    \/ center_x - radius < 0 \/ center_x + radius >= image.width
    \/ center_y - radius < 0 \/ center_y + radius >= image.height

\* lines 81-86: the two nested range() loops, flattened; idx counts the
\* (dy, dx) pairs in loop order.  The result is the list of <<row, col>> read.
RECURSIVE SampleCoords(_, _, _, _)
SampleCoords(center_x, center_y, radius, idx) ==
    IF idx >= (2 * radius + 1) * (2 * radius + 1) THEN <<>>
    ELSE LET dy == (idx \div (2 * radius + 1)) - radius
             dx == (idx % (2 * radius + 1)) - radius
             rest == SampleCoords(center_x, center_y, radius, idx + 1)
         IN IF dx * dx + dy * dy <= radius * radius
            THEN <<(<<center_y + dy, center_x + dx>>)>> \o rest
            ELSE rest

\* the coordinates analyze_bubble reads for a bubble: none when the bounds
\* check returns early
WindowReads(image, center_x, center_y, radius) ==
    IF OutOfBounds(image, center_x, center_y, radius) THEN <<>>
    ELSE SampleCoords(center_x, center_y, radius, 0)

RECURSIVE SeqSum(_)
SeqSum(s) == IF s = <<>> THEN 0 ELSE Head(s) + SeqSum(Tail(s))

\* least k in lo..hi with k*k*n*n >= v (hi if there is none): ceil(sqrt(v)/n)
RECURSIVE CeilRoot(_, _, _, _)
CeilRoot(v, n, lo, hi) ==
    IF lo >= hi THEN hi
    ELSE LET mid == (lo + hi) \div 2
         IN IF mid * mid * n * n >= v THEN CeilRoot(v, n, lo, mid)
            ELSE CeilRoot(v, n, mid + 1, hi)

\* the comparison without its equality
IsFilled_Strict(darkness_score, n, threshold) ==
    100 * darkness_score > threshold * 255 * n

\* line 102: darkness_score >= self.filled_threshold, on the numerator of
\* darkness_score over 255 n and the threshold in hundredths
IsFilled(darkness_score, n, threshold) ==
    100 * darkness_score >= threshold * 255 * n

\* lines 93-102 on the sampled values
Statistics(pixel_values, threshold) ==
    LET n == Len(pixel_values)
        total == SeqSum(pixel_values)
        squares == SeqSum([i \in 1..n |-> pixel_values[i] * pixel_values[i]])
        \* darkness_score = (255 - mean)/255 = (255 n - total)/(255 n)
        darkness_score == 255 * n - total
        \* n^2 * variance; np.std is the population deviation
        nnvar == n * squares - total * total
        \* ceil(10 * std), capped at 1000: confidence = max(0, 1 - std/100)
        tenstd == CeilRoot(100 * nnvar, n, 0, 1000)
        confidence == IF 1000 - tenstd < 0 THEN 0 ELSE 1000 - tenstd
        is_filled == IsFilled(darkness_score, n, threshold)
    IN BubbleAnalysisResult(darkness_score, is_filled,
                            IF confidence > 1000 THEN 1000 ELSE confidence)

\* an image whose pixel data np.array() or gray.shape cannot make sense of
Corrupt(image) == "corrupt" \in DOMAIN image

analyze_bubble(image, center_x, center_y, radius, threshold) ==
    IF Corrupt(image) THEN SafeDefault            \* lines 64-73 raise; line 104
    ELSE IF OutOfBounds(image, center_x, center_y, radius) THEN SafeDefault
    ELSE LET coords == SampleCoords(center_x, center_y, radius, 0)
             reads == [i \in 1..Len(coords) |->
                          GrayAt(image, coords[i][1], coords[i][2])]
         IN IF \E i \in 1..Len(reads) : reads[i] = IndexError
            THEN SafeDefault                      \* except Exception (line 104)
            ELSE IF reads = <<>> THEN SafeDefault \* line 89
            ELSE Statistics([i \in 1..Len(reads) |-> reads[i][1]], threshold)

(***************************************************************************)
(* BubbleDetector.analyze_all_bubbles, one bubble per step.  A run is a    *)
(* record: positions and image as handed over, qi/oi the question and      *)
(* option the loops have reached, filled_options of the current question,  *)
(* results and answers built so far; thresholds (bookkeeping) collects the *)
(* filled_threshold values the run has read.                               *)
(***************************************************************************)
NewRun(image, positions) ==
    [image |-> image, positions |-> positions, qi |-> 1, oi |-> 1,
     filled_options |-> <<>>, results |-> <<>>, answers |-> <<>>,
     thresholds |-> {}, raised |-> FALSE]

RunDone(run) == run.raised \/ run.qi > Len(run.positions)

\* a coordinate int() rejects: None, a string, NaN
Malformed == 0 - 1000000

\* line 135: int(x), int(y) raise on such a coordinate, outside the try of
\* analyze_bubble
IntRaises(xy) == xy[1] = Malformed \/ xy[2] = Malformed

\* a + b on coordinates: NaN plus a number is NaN
PyAdd(a, b) == IF a = Malformed \/ b = Malformed THEN Malformed ELSE a + b

\* the test without the confidence gate
Qualifying_NoGate(analysis) == analysis.is_filled

\* line 138: the bubble counts as a mark
Qualifying(analysis) == analysis.is_filled /\ analysis.confidence >= CONFIDENCE_GATE

\* the last of the maximal elements instead of the first
RECURSIVE MaxByDarkness_Last(_, _, _)
MaxByDarkness_Last(filled_options, best, i) ==
    IF i > Len(filled_options) THEN best
    ELSE MaxByDarkness_Last(filled_options,
                            IF filled_options[i][2] >= best[2] THEN filled_options[i] ELSE best,
                            i + 1)

\* max(filled_options, key=lambda x: x[1]): the first of the maximal elements
RECURSIVE MaxByDarkness(_, _, _)
MaxByDarkness(filled_options, best, i) ==
    IF i > Len(filled_options) THEN best
    ELSE MaxByDarkness(filled_options,
                       IF filled_options[i][2] > best[2] THEN filled_options[i] ELSE best,
                       i + 1)

\* a single mark treated like no mark
SelectAnswer_MultiOnly(filled_options) ==
    IF Len(filled_options) > 1
    THEN MaxByDarkness(filled_options, filled_options[1], 2)[1]
    ELSE None

\* lines 141-147
SelectAnswer(filled_options) ==
    IF Len(filled_options) = 1 THEN filled_options[1][1]
    ELSE IF Len(filled_options) > 1
         THEN MaxByDarkness(filled_options, filled_options[1], 2)[1]
         ELSE None

\* the end of the option loop of one question: lines 141-147, then the next question
CloseQuestion(run, q_num, results, filled_options) ==
    [run EXCEPT !.results = results,
                !.answers = Put(run.answers, q_num, SelectAnswer(filled_options)),
                !.filled_options = <<>>,
                !.qi = run.qi + 1,
                !.oi = 1]

\* one pass of the inner loop body (lines 134-139), reading the detector's
\* threshold as it is at that moment; the first pass of a question also runs
\* line 130-131 and the last one lines 141-147
AnalyzeNext(run, radius, threshold) ==
    LET q_num == run.positions[run.qi][1]
        options == run.positions[run.qi][2]
        results0 == IF run.oi = 1 THEN Put(run.results, q_num, <<>>) ELSE run.results
    IN IF Len(options) = 0 THEN CloseQuestion(run, q_num, results0, <<>>)
       ELSE IF IntRaises(options[run.oi][2]) THEN [run EXCEPT !.raised = TRUE]
       ELSE LET option == options[run.oi][1]
                xy == options[run.oi][2]
                analysis == analyze_bubble(run.image, xy[1], xy[2], radius, threshold)
                results1 == Put(results0, q_num, Put(Get(results0, q_num), option, analysis))
                filled1 == IF Qualifying(analysis)
                           THEN Append(run.filled_options, <<option, analysis.darkness_score>>)
                           ELSE run.filled_options
                seen == [run EXCEPT !.thresholds = @ \cup {threshold}]
            IN IF run.oi = Len(options)
               THEN CloseQuestion(seen, q_num, results1, filled1)
               ELSE [seen EXCEPT !.results = results1,
                                 !.filled_options = filled1,
                                 !.oi = run.oi + 1]

\* the rest of a run under one threshold
RECURSIVE FinishRun(_, _, _)
FinishRun(run, radius, threshold) ==
    IF RunDone(run) THEN run
    ELSE FinishRun(AnalyzeNext(run, radius, threshold), radius, threshold)

\* what a finished run gives its caller: the two dicts, or the exception
Returned(run) ==
    IF run.raised THEN [raised |-> TRUE, results |-> <<>>, answers |-> <<>>]
    ELSE [raised |-> FALSE, results |-> run.results, answers |-> run.answers]

\* analyze_all_bubbles called with nothing changing the detector meanwhile
analyze_all_bubbles(image, positions, radius, threshold) ==
    Returned(FinishRun(NewRun(image, positions), radius, threshold))

(***************************************************************************)
(* Anchor detection.  cv2.threshold (THRESH_BINARY_INV at ANCHOR_THRESHOLD)*)
(* makes the pixels <= 127 foreground and cv2.findContours returns one     *)
(* external contour per connected foreground area: here one per region     *)
(* that holds such pixels, reported in the order of image.regions, with    *)
(* the region's rectangle as its boundingRect.                             *)
(***************************************************************************)
AnchorNames == <<"top_left", "top_right", "bottom_left", "bottom_right">>

Contours(image) ==
    SelectSeq(image.regions,
              LAMBDA rg : rg.lo <= ANCHOR_THRESHOLD \/ rg.hi <= ANCHOR_THRESHOLD)

\* the `expected` dict: the top-left corner expected for each name
Expected(image, margin, size) ==
    << <<"top_left", <<margin, margin>> >>,
       <<"top_right", <<image.width - margin - size, margin>> >>,
       <<"bottom_left", <<margin, image.height - margin - size>> >>,
       <<"bottom_right", <<image.width - margin - size, image.height - margin - size>> >> >>

\* worker_threads.py lines 66-71: the square-candidate filter, w/h in 0.7..1.3
SquareCandidate(rg) ==
    /\ ANCHOR_CONTOUR_MIN <= rg.w /\ rg.w <= ANCHOR_CONTOUR_MAX
    /\ ANCHOR_CONTOUR_MIN <= rg.h /\ rg.h <= ANCHOR_CONTOUR_MAX
    /\ 7 * rg.h <= 10 * rg.w /\ 10 * rg.w <= 13 * rg.h

Candidates(image) == SelectSeq(Contours(image), SquareCandidate)

AnchorRecord(c) == [x |-> c.x, y |-> c.y, width |-> c.w, height |-> c.h]

\* worker_threads.py line 78: the squared distance between the centre of the
\* candidate and the centre of the expected square, times 4 to stay whole
CentreDist4(c, exp, size) ==
    (2 * c.x + c.w - (2 * exp[1] + size)) * (2 * c.x + c.w - (2 * exp[1] + size))
    + (2 * c.y + c.h - (2 * exp[2] + size)) * (2 * c.y + c.h - (2 * exp[2] + size))

\* the comparison with a cutoff at the legacy detector's sanity distance
Closer_Within(best, dist, candidate) ==
    IF dist < 4 * LEGACY_MAX_DIST * LEGACY_MAX_DIST /\ (best = <<>> \/ dist < best[1])
    THEN <<dist, candidate>> ELSE best

\* worker_threads.py lines 79-81: if dist < best_dist, with best_dist = inf
\* while best is <<>>
Closer(best, dist, candidate) ==
    IF best = <<>> \/ dist < best[1] THEN <<dist, candidate>> ELSE best

\* worker_threads.py lines 74-81: the inner loop from candidate i on; best is
\* <<>> (None) or <<dist, candidate>>, replaced on a strictly smaller distance
RECURSIVE NearestCandidate(_, _, _, _, _)
NearestCandidate(candidates, exp, size, best, i) ==
    IF i > Len(candidates) THEN best
    ELSE NearestCandidate(candidates, exp, size,
                          Closer(best, CentreDist4(candidates[i], exp, size), candidates[i]),
                          i + 1)

\* worker_threads.py lines 72-84: the loop over the expected names from name k on
RECURSIVE MatchAnchors(_, _, _, _, _)
MatchAnchors(candidates, expected, size, found, k) ==
    IF k > Len(expected) THEN found
    ELSE LET best == NearestCandidate(candidates, expected[k][2], size, <<>>, 1)
         IN MatchAnchors(candidates, expected, size,
                         IF best # <<>>
                         THEN Put(found, expected[k][1], AnchorRecord(best[2]))
                         ELSE found,
                         k + 1)

\* WorkerThread._detect_anchors_static
detect_anchors_static(image, cv2_available) ==
    IF ~cv2_available
    THEN [success |-> FALSE, message |-> [text |-> "OpenCV not available"], anchors |-> <<>>]
    ELSE LET found == MatchAnchors(Candidates(image),
                                   Expected(image, ANCHOR_MARGIN, ANCHOR_SIZE),
                                   ANCHOR_SIZE, <<>>, 1)
         IN IF Len(found) < 4
            THEN [success |-> FALSE, message |-> [text |-> "Failed to detect all anchors"],
                  anchors |-> found]
            ELSE [success |-> TRUE, message |-> [text |-> "Anchors detected"],
                  anchors |-> found]

\* omr.py line 962: the squared distance between the top-left corners
CornerDist2(c, exp) ==
    (c.x - exp[1]) * (c.x - exp[1]) + (c.y - exp[2]) * (c.y - exp[2])

\* omr.py lines 958-966: dist < 100 and dist < best_dist, on the squares
RECURSIVE LegacyNearest(_, _, _, _)
LegacyNearest(candidates, exp, best, i) ==
    IF i > Len(candidates) THEN best
    ELSE LET dist == CornerDist2(candidates[i], exp)
         IN LegacyNearest(candidates, exp,
                          IF dist < LEGACY_MAX_DIST * LEGACY_MAX_DIST
                             /\ (best = <<>> \/ dist < best[1])
                          THEN <<dist, candidates[i]>> ELSE best,
                          i + 1)

\* omr.py lines 956-970
RECURSIVE LegacyMatch(_, _, _, _)
LegacyMatch(candidates, expected, found, k) ==
    IF k > Len(expected) THEN found
    ELSE LET best == LegacyNearest(candidates, expected[k][2], <<>>, 1)
         IN LegacyMatch(candidates, expected,
                        IF best # <<>>
                        THEN Put(found, expected[k][1], AnchorRecord(best[2]))
                        ELSE found,
                        k + 1)

\* omr.py success rule (line 973)
LegacySuccess(found) == Len(found) >= 3

\* omr.py WorkerThread._detect_anchors
detect_anchors_legacy(image, cv2_available) ==
    IF ~cv2_available
    THEN [success |-> FALSE, message |-> [text |-> "OpenCV not available"], anchors |-> <<>>]
    ELSE LET found == LegacyMatch(Candidates(image),
                                  Expected(image, ANCHOR_MARGIN, ANCHOR_SIZE), <<>>, 1)
         IN [success |-> LegacySuccess(found),
             message |-> [text |-> "Detected n/4 anchors", n |-> Len(found)],
             anchors |-> found]

(***************************************************************************)
(* Sheets: scanned pages with the anchor squares named in `printed` at     *)
(* their expected corners (moved by `shift`), further dark squares, and    *)
(* bubble patches.                                                         *)
(***************************************************************************)
SheetWidth == 300
SheetHeight == 300

Square(x, y, side) == [x |-> x, y |-> y, w |-> side, h |-> side, lo |-> 0, hi |-> 0]

RECURSIVE PrintedSquares(_, _, _, _)
PrintedSquares(expected, printed, shift, k) ==
    IF k > Len(expected) THEN <<>>
    ELSE (IF expected[k][1] \in printed
          THEN <<Square(expected[k][2][1] + shift, expected[k][2][2] + shift, ANCHOR_SIZE)>>
          ELSE <<>>)
         \o PrintedSquares(expected, printed, shift, k + 1)

Sheet(printed, shift, extra) ==
    LET page == [width |-> SheetWidth, height |-> SheetHeight]
    IN [width |-> SheetWidth, height |-> SheetHeight,
        regions |-> PrintedSquares(Expected(page, ANCHOR_MARGIN, ANCHOR_SIZE),
                                   printed, shift, 1) \o extra]

(***************************************************************************)
(* The inputs of the scanner session: three scanned sheets and two layout  *)
(* documents.  Layout1 hangs its bubbles on three printed anchors; Layout2 *)
(* hangs the bubble of its second question on an anchor name no detector   *)
(* knows.  The sheets carry a light pencil mark where Layout1 puts option  *)
(* A of question 1 and a darker one up the page.                           *)
(*                                                                         *)
(* hist is bookkeeping the program does not hold: budget, the user actions *)
(* left; detected, a detection of the current image has been handled;      *)
(* anchors_fresh and results_fresh, the anchors / the answers installed    *)
(* stem from a task started after the last load_image; results_thresholds, *)
(* the thresholds the installed answers were judged with; requested, the   *)
(* last handler to touch positions, answers or threshold was               *)
(* update_threshold with bubbles positioned; awaited, the last handler     *)
(* that started a task found one running; earlier, the positions before    *)
(* the last load_omr; document, the file it was given; reported, it showed *)
(* an error; correction, the display's coordinates at the last release of  *)
(* a dragged bubble since the last mapping; failed, the last analysis      *)
(* result handled for the current image was a failure.                     *)
(***************************************************************************)
MaxUserActions == 6

AllAnchors == {"top_left", "top_right", "bottom_left", "bottom_right"}

Marks ==
    << [x |-> 110, y |-> 120, w |-> 11, h |-> 11, lo |-> 200, hi |-> 200],
       [x |-> 149, y |-> 40, w |-> 11, h |-> 11, lo |-> 100, hi |-> 100] >>

Images == {"full", "partial", "blank"}

ImageOf(id) ==
    CASE id = "full" -> Sheet(AllAnchors, 0, Marks)
      [] id = "partial" -> Sheet(AllAnchors \ {"bottom_right"}, 0, Marks)
      [] id = "blank" -> Sheet({}, 0, Marks)

\* the anchors printed on the sheet
PrintedOn(id) ==
    CASE id = "full" -> AllAnchors
      [] id = "partial" -> AllAnchors \ {"bottom_right"}
      [] id = "blank" -> {}

Bubble(x, y, anchor, rel_x, rel_y) ==
    [x |-> x, y |-> y, radius |-> 10,
     relative_to_anchor |-> [x |-> rel_x, y |-> rel_y, anchor |-> anchor]]

Layout1 ==
    [questions |-> <<"1", "2">>,
     bubble_coordinates |->
        << <<"1", << <<"A", Bubble(115, 125, "top_left", 40, 50)>>,
                     <<"B", Bubble(154, 164, "bottom_right", 0 - 40, 0 - 30)>> >> >>,
           <<"2", << <<"A", Bubble(154, 125, "top_right", 0 - 40, 50)>> >> >> >>]

Layout2 ==
    [questions |-> <<"1", "2">>,
     bubble_coordinates |->
        << <<"1", << <<"A", Bubble(115, 125, "top_left", 40, 50)>> >> >>,
           <<"2", << <<"A", Bubble(150, 150, "center", 0, 0)>> >> >> >>]

Layouts == {Layout1, Layout2}

\* a document without bubble_coordinates
LayoutNoCoordinates == [questions |-> <<"1", "2">>]

\* a document whose second question key is no integer
LayoutBadKey ==
    [questions |-> <<"1", "2">>,
     bubble_coordinates |->
        << <<"1", << <<"A", Bubble(115, 125, "top_left", 40, 50)>> >> >>,
           <<"Q2", << <<"A", Bubble(154, 125, "top_right", 0 - 40, 50)>> >> >> >>]

\* a document with NaN as an offset of its second question; json.load
\* accepts the literal
LayoutNaN ==
    [questions |-> <<"1", "2">>,
     bubble_coordinates |->
        << <<"1", << <<"A", Bubble(115, 125, "top_left", 40, 50)>> >> >>,
           <<"2", << <<"A", Bubble(154, 125, "top_right", Malformed, 50)>> >> >> >>]

\* a file that cannot be opened or is no JSON
UnreadableFile == [unreadable |-> TRUE]

Documents == Layouts \cup {LayoutNoCoordinates, LayoutBadKey, LayoutNaN, UnreadableFile}

SessionThresholds == {10, FILLED_THRESHOLD}

\* what a drag moves a bubble by, in image pixels
DragDeltas == {<<4, 0>>}

(***************************************************************************)
(* The scanner session after construction (ScannerWidget.__init__,         *)
(* setup_ui, ZoomableImageLabel.__init__)                                  *)
(***************************************************************************)
SessionInit ==
    /\ current_image = None
    /\ anchors = <<>>
    /\ omr_data = Null
    /\ bubble_positions = <<>>
    /\ filled_threshold = FILLED_THRESHOLD
    /\ analysis_results = <<>>
    /\ answers = <<>>
    /\ threads = <<>>
    /\ queue = <<>>
    /\ buttons = [process_btn |-> FALSE, load_omr_btn |-> FALSE,
                  drag_mode_btn |-> FALSE, drag_checked |-> FALSE]
    /\ display = [drag_mode_enabled |-> FALSE, bubble_coordinates |-> <<>>,
                  dragging_bubble |-> <<>>]
    /\ hist = [budget |-> MaxUserActions,
               detected |-> FALSE, anchors_fresh |-> TRUE, results_fresh |-> TRUE,
               results_thresholds |-> {}, requested |-> FALSE, awaited |-> FALSE,
               earlier |-> <<>>, reported |-> FALSE, document |-> Null,
               correction |-> <<>>, failed |-> FALSE]
    /\ last = "init"

session_vars == <<current_image, anchors, omr_data, bubble_positions, filled_threshold,
                  analysis_results, answers, threads, queue, buttons, display, hist, last>>

(***************************************************************************)
(* Specification SpecAnalyze: analyze_all_bubbles as a function.  The      *)
(* input is either one question with three options on patches chosen from  *)
(* Patches, or a single bubble anywhere on or around a small dark image.   *)
(***************************************************************************)
Thresholds == {10, FILLED_THRESHOLD, 50, 90}
\* <<lo, hi>> of a patch: paper, ink, two uniform grays, ink/paper noise,
\* and two textures around the confidence gate
Patches == { <<255, 255>>, <<0, 0>>, <<100, 100>>, <<200, 200>>, <<0, 255>>,
             <<60, 100>>, <<60, 110>> }
SiteX == <<6, 18, 30>>
SiteY == 6
EdgeSize == 8

SitesImage(patches) ==
    [width |-> 37, height |-> 13,
     regions |-> [i \in 1..3 |-> [x |-> SiteX[i] - 5, y |-> SiteY - 5, w |-> 11, h |-> 11,
                                  lo |-> patches[i][1], hi |-> patches[i][2]]]]

SitesPositions ==
    << <<1, << <<"A", <<SiteX[1], SiteY>> >>,
                <<"B", <<SiteX[2], SiteY>> >>,
                <<"C", <<SiteX[3], SiteY>> >> >> >> >>

EdgeImage ==
    [width |-> EdgeSize, height |-> EdgeSize,
     regions |-> << [x |-> 0, y |-> 0, w |-> EdgeSize, h |-> EdgeSize, lo |-> 0, hi |-> 40] >>]

AnalyzeInputs ==
    { [image |-> SitesImage(p), positions |-> SitesPositions, threshold |-> t] :
          p \in [1..3 -> Patches], t \in Thresholds }
    \cup
    { [image |-> EdgeImage, positions |-> << <<1, << <<"A", <<x, y>> >> >> >> >>,
       threshold |-> FILLED_THRESHOLD] :
          x \in (0 - 2)..(EdgeSize + 1), y \in (0 - 2)..(EdgeSize + 1) }

InitAnalyze ==
    /\ SessionInit
    /\ fin \in AnalyzeInputs
    /\ fout = Null

AnalyzeAll ==
    /\ fout = Null
    /\ fout' = analyze_all_bubbles(fin.image, fin.positions, ANALYSIS_RADIUS, fin.threshold)
    /\ UNCHANGED <<fin, session_vars>>

NextAnalyze == AnalyzeAll

SpecAnalyze == InitAnalyze /\ [][NextAnalyze]_vars

(***************************************************************************)
(* analyze_all_bubbles on runs with one bubble that cannot be analysed:    *)
(* SpecIsolation.  Question 1 has a sound bubble A and a bubble B on a     *)
(* spot that may be off the image or malformed, question 2 a sound bubble; *)
(* the image may be corrupt as a whole.                                    *)
(***************************************************************************)
IsolationPatches == { <<255, 255>>, <<0, 0>>, <<100, 100>> }

Spots ==
    { <<SiteX[2], SiteY>>, <<0 - 1, SiteY>>, <<1, SiteY>>, <<36, SiteY>>,
      <<SiteX[2], 12>>, <<Malformed, SiteY>>, <<SiteX[2], Malformed>> }

IsolationPositions(spot) ==
    << <<1, << <<"A", <<SiteX[1], SiteY>> >>, <<"B", spot>> >> >>,
       <<2, << <<"A", <<SiteX[3], SiteY>> >> >> >> >>

IsolationInputs ==
    { [image |-> IF corrupt THEN [corrupt |-> TRUE] @@ SitesImage(p) ELSE SitesImage(p),
       positions |-> IsolationPositions(spot),
       threshold |-> FILLED_THRESHOLD] :
          p \in [1..3 -> IsolationPatches], spot \in Spots, corrupt \in BOOLEAN }

InitIsolation ==
    /\ SessionInit
    /\ fin \in IsolationInputs
    /\ fout = Null

SpecIsolation == InitIsolation /\ [][NextAnalyze]_vars

(***************************************************************************)
(* Specification SpecBubble: calls of analyze_bubble on one detector       *)
(* object.  fin is the image and the centre given to every call; fout      *)
(* holds the image and the detector as the calls leave them and the        *)
(* results returned so far, each with the threshold it was judged with.    *)
(* Between calls the threshold may be set as update_threshold sets it.     *)
(***************************************************************************)
MaxCalls == 3
SpinThresholds == {10, 20, FILLED_THRESHOLD, 90}
BubblePatches == { <<255, 255>>, <<0, 0>>, <<204, 204>>, <<0, 255>>, <<60, 110>> }
PatchSize == 11
Centres == { <<5, 5>>, <<2, 5>>, <<5, PatchSize>> }

PatchImage(patch) ==
    [width |-> PatchSize, height |-> PatchSize,
     regions |-> << [x |-> 0, y |-> 0, w |-> PatchSize, h |-> PatchSize,
                     lo |-> patch[1], hi |-> patch[2]] >>]

\* BubbleDetector.__init__
NewDetector == [analysis_radius |-> ANALYSIS_RADIUS, filled_threshold |-> FILLED_THRESHOLD]

BubbleInputs ==
    { [image |-> IF corrupt THEN [corrupt |-> TRUE] @@ PatchImage(p) ELSE PatchImage(p),
       center_x |-> c[1], center_y |-> c[2]] :
          p \in BubblePatches, c \in Centres, corrupt \in BOOLEAN }

InitBubble ==
    /\ SessionInit
    /\ fin \in BubbleInputs
    /\ fout = [image |-> fin.image, detector |-> NewDetector, calls |-> <<>>]

\* a call that moves the threshold of its detector
AfterCall_Adapting(image, detector, result) ==
    [image |-> image,
     detector |-> [detector EXCEPT !.filled_threshold = IF result.is_filled THEN 90 ELSE @]]

\* the image and the detector after a call: analyze_bubble works on the
\* copy np.array(image) makes and assigns no attribute of self
AfterCall(image, detector, result) == [image |-> image, detector |-> detector]

Called(state, result) ==
    AfterCall(state.image, state.detector, result) @@
    [calls |-> Append(state.calls,
                      [threshold |-> state.detector.filled_threshold, result |-> result])]

AnalyzeBubbleCall ==
    /\ Len(fout.calls) < MaxCalls
    /\ fout' = Called(fout, analyze_bubble(fout.image, fin.center_x, fin.center_y,
                                           fout.detector.analysis_radius,
                                           fout.detector.filled_threshold))
    /\ UNCHANGED <<fin, session_vars>>

\* self.detector.filled_threshold = self.threshold_spin.value()
SetThreshold ==
    /\ Len(fout.calls) < MaxCalls
    /\ \E value \in SpinThresholds \ {fout.detector.filled_threshold} :
           fout' = [fout EXCEPT !.detector.filled_threshold = value]
    /\ UNCHANGED <<fin, session_vars>>

NextBubble == AnalyzeBubbleCall \/ SetThreshold

SpecBubble == InitBubble /\ [][NextBubble]_vars

(***************************************************************************)
(* Specification SpecDetect: the two anchor detectors as functions of a    *)
(* sheet: any subset of the four squares printed, in place or moved, alone *)
(* or with one more dark shape on the page.                                *)
(***************************************************************************)
ExtraShapes ==
    { <<>>,
      <<Square(140, 140, 24)>>,                                        \* a square mid-page
      <<Square(200, 200, 30)>>,                                        \* a square near a corner
      <<[x |-> 120, y |-> 20, w |-> 60, h |-> 8, lo |-> 0, hi |-> 0]>>,  \* a title bar
      <<[x |-> 110, y |-> 120, w |-> 11, h |-> 11, lo |-> 0, hi |-> 0]>> } \* a filled bubble

DetectInputs ==
    { [image |-> Sheet(printed, shift, extra), printed |-> printed, cv2 |-> TRUE] :
          printed \in SUBSET {"top_left", "top_right", "bottom_left", "bottom_right"},
          shift \in {0, 6}, extra \in ExtraShapes }
    \cup
    { [image |-> Sheet({"top_left", "top_right", "bottom_left", "bottom_right"}, 0, <<>>),
       printed |-> {"top_left", "top_right", "bottom_left", "bottom_right"},
       cv2 |-> FALSE] }

InitDetect ==
    /\ SessionInit
    /\ fin \in DetectInputs
    /\ fout = Null

DetectStatic ==
    /\ fout = Null
    /\ fout' = [detector |-> "package", result |-> detect_anchors_static(fin.image, fin.cv2)]
    /\ UNCHANGED <<fin, session_vars>>

DetectLegacy ==
    /\ fout = Null
    /\ fout' = [detector |-> "legacy", result |-> detect_anchors_legacy(fin.image, fin.cv2)]
    /\ UNCHANGED <<fin, session_vars>>

NextDetect == DetectStatic \/ DetectLegacy

SpecDetect == InitDetect /\ [][NextDetect]_vars

(***************************************************************************)
(* ScannerWidget: coordinate transformation                                *)
(***************************************************************************)
\* Python's truth value of self.omr_data: None and {} are false
Truthy(data) == data # Null /\ data # <<>>

\* int(q_str) on the question keys of a layout document
PyInt(q_str) ==
    CASE q_str = "1" -> 1
      [] q_str = "2" -> 2
      [] q_str = "3" -> 3
      [] q_str = "4" -> 4

\* int(q_str) returns; it raises ValueError otherwise
IsIntKey(q_str) == q_str \in {"1", "2", "3", "4"}

\* str(q_num), its inverse on these keys
PyStr(q_num) ==
    CASE q_num = 1 -> "1"
      [] q_num = 2 -> "2"
      [] q_num = 3 -> "3"
      [] q_num = 4 -> "4"

\* the position in place of anchor + offset
AnchoredPosition_FromLayout(option_data, found) ==
    <<option_data.x, option_data.y>>

\* lines 273-276: the anchor's detected position plus the relative offset
AnchoredPosition(option_data, found) ==
    LET rel == option_data.relative_to_anchor
        anchor == Get(found, rel.anchor)
    IN <<PyAdd(anchor.x, rel.x), PyAdd(anchor.y, rel.y)>>

\* lines 269-276: the options of one question whose anchor was detected
RECURSIVE PositionOptions(_, _, _)
PositionOptions(q_data, found, j) ==
    IF j > Len(q_data) THEN <<>>
    ELSE LET option == q_data[j][1]
             option_data == q_data[j][2]
             placed == /\ "relative_to_anchor" \in DOMAIN option_data
                       /\ Has(found, option_data.relative_to_anchor.anchor)
         IN (IF placed
             THEN << <<option, AnchoredPosition(option_data, found)>> >>
             ELSE <<>>) \o PositionOptions(q_data, found, j + 1)

\* self.omr_data.get('bubble_coordinates', {})
BubbleCoordinates(data) ==
    IF "bubble_coordinates" \in DOMAIN data THEN data.bubble_coordinates ELSE <<>>

\* lines 265-276: the loop over the questions, up to the first key int()
\* rejects; self.bubble_positions holds what was built until then
RECURSIVE TransformQuestions(_, _, _, _)
TransformQuestions(bubble_coords, found, i, built) ==
    IF i > Len(bubble_coords) THEN [positions |-> built, raised |-> FALSE]
    ELSE IF ~IsIntKey(bubble_coords[i][1]) THEN [positions |-> built, raised |-> TRUE]
    ELSE TransformQuestions(bubble_coords, found, i + 1,
                            Append(built, <<PyInt(bubble_coords[i][1]),
                                            PositionOptions(bubble_coords[i][2], found, 1)>>))

\* _transform_coordinates: self.bubble_positions when it returns or raises
TransformOutcome(found, data, positions) ==
    IF found = <<>> \/ ~Truthy(data) THEN [positions |-> positions, raised |-> FALSE]
    ELSE TransformQuestions(BubbleCoordinates(data), found, 1, <<>>)

\* _transform_coordinates: the new value of self.bubble_positions
transform_coordinates(found, data, positions) ==
    TransformOutcome(found, data, positions).positions

(***************************************************************************)
(* Specification SpecExport: the form designer's scanner export, written   *)
(* as JSON, read back and mapped against anchors that sit exactly on the   *)
(* exported alignment points.  A form is the list of the option counts of  *)
(* its questions; lengths are in pixels at EXPORT_DPI.                     *)
(***************************************************************************)
EXPORT_ANCHOR_TO_FIRST_BUBBLE_X == 120
EXPORT_ANCHOR_TO_FIRST_BUBBLE_Y == 380
EXPORT_BUBBLE_SPACING_X == 120
EXPORT_BUBBLE_SPACING_Y == 90
BUBBLE_RADIUS == 10
PDF_ALIGNMENT_SQUARE_SIZE == 15
\* 0.5 inch, in hundredths of an inch
PDF_ALIGNMENT_SQUARE_OFFSET == 50
EXPORT_DPI == 150
POINTS_PER_INCH == 72

MaxQuestions == 3
MaxOptions == 4

\* AppConfig.PAGE_SIZES_INCHES in hundredths of an inch
PAGE_SIZES_INCHES == [letter |-> <<850, 1100>>, a4 |-> <<827, 1169>>]

\* get_page_size_inches(): landscape swaps width and height
get_page_size_inches(size, orient) ==
    IF orient = "landscape"
    THEN <<PAGE_SIZES_INCHES[size][2], PAGE_SIZES_INCHES[size][1]>>
    ELSE PAGE_SIZES_INCHES[size]

\* get_option_letter(index) = chr(65 + index)
get_option_letter(j) == <<"A", "B", "C", "D", "E">>[j + 1]

\* _calculate_alignment_points; int() truncates the positive products
calculate_alignment_points(size, orient) ==
    LET page_width_px == (get_page_size_inches(size, orient)[1] * EXPORT_DPI) \div 100
        page_height_px == (get_page_size_inches(size, orient)[2] * EXPORT_DPI) \div 100
        square_size_px == (PDF_ALIGNMENT_SQUARE_SIZE * EXPORT_DPI) \div POINTS_PER_INCH
        margin_px == (PDF_ALIGNMENT_SQUARE_OFFSET * EXPORT_DPI) \div 100
    IN [top_left |-> [x |-> margin_px, y |-> margin_px],
        top_right |-> [x |-> page_width_px - margin_px - square_size_px, y |-> margin_px],
        bottom_left |-> [x |-> margin_px, y |-> page_height_px - margin_px - square_size_px],
        bottom_right |-> [x |-> page_width_px - margin_px - square_size_px,
                          y |-> page_height_px - margin_px - square_size_px],
        size |-> square_size_px, page_width |-> page_width_px, page_height |-> page_height_px]

\* a bubble whose absolute position leaves the anchor out
ExportedBubble_FromPageOrigin(top_left_anchor, i, j) ==
    LET relative_x == EXPORT_ANCHOR_TO_FIRST_BUBBLE_X + j * EXPORT_BUBBLE_SPACING_X
        relative_y == EXPORT_ANCHOR_TO_FIRST_BUBBLE_Y + i * EXPORT_BUBBLE_SPACING_Y
    IN [x |-> relative_x, y |-> relative_y,
        radius |-> (BUBBLE_RADIUS * EXPORT_DPI) \div POINTS_PER_INCH,
        relative_to_anchor |-> [x |-> relative_x, y |-> relative_y, anchor |-> "top_left"]]

\* _calculate_bubble_coordinates, lines 448-458: option j of question i
\* (both counted from 0)
ExportedBubble(top_left_anchor, i, j) ==
    LET relative_x == EXPORT_ANCHOR_TO_FIRST_BUBBLE_X + j * EXPORT_BUBBLE_SPACING_X
        relative_y == EXPORT_ANCHOR_TO_FIRST_BUBBLE_Y + i * EXPORT_BUBBLE_SPACING_Y
    IN [x |-> top_left_anchor.x + relative_x, y |-> top_left_anchor.y + relative_y,
        radius |-> (BUBBLE_RADIUS * EXPORT_DPI) \div POINTS_PER_INCH,
        relative_to_anchor |-> [x |-> relative_x, y |-> relative_y, anchor |-> "top_left"]]

\* _calculate_bubble_coordinates: the dict keyed by question number
calculate_bubble_coordinates(form, alignment) ==
    [i \in 1..Len(form) |->
        <<i, [j \in 1..form[i] |->
                 <<get_option_letter(j - 1),
                   ExportedBubble(alignment.top_left, i - 1, j - 1)>>]>>]

\* json.dump then json.load: the int question keys come back as strings
JsonKeys(d) == [i \in 1..Len(d) |-> <<PyStr(d[i][1]), d[i][2]>>]

\* export_for_scanner: the parts of the document the scanner reads
ExportedDocument(form, size, orient) ==
    [questions |-> [i \in 1..Len(form) |-> PyStr(i)],
     bubble_coordinates |->
         JsonKeys(calculate_bubble_coordinates(form, calculate_alignment_points(size, orient))),
     alignment_points |-> calculate_alignment_points(size, orient)]

\* anchors exactly on the exported alignment points
PerfectAnchors(alignment) ==
    [k \in 1..Len(AnchorNames) |->
        <<AnchorNames[k], [x |-> alignment[AnchorNames[k]].x, y |-> alignment[AnchorNames[k]].y]>>]

Forms == UNION {[1..n -> 0..MaxOptions] : n \in 1..MaxQuestions}

ExportInputs ==
    { [form |-> f, size |-> size, orient |-> orient] :
          f \in Forms, size \in {"letter", "a4"}, orient \in {"portrait", "landscape"} }

InitExport ==
    /\ SessionInit
    /\ fin \in ExportInputs
    /\ fout = [stage |-> "designed", document |-> Null, positions |-> <<>>]

ExportScanner ==
    /\ fout.stage = "designed"
    /\ fout' = [stage |-> "exported",
                document |-> ExportedDocument(fin.form, fin.size, fin.orient),
                positions |-> <<>>]
    /\ UNCHANGED <<fin, session_vars>>

ReadBack ==
    /\ fout.stage = "exported"
    /\ fout' = [fout EXCEPT
                    !.stage = "mapped",
                    !.positions = transform_coordinates(
                                      PerfectAnchors(fout.document.alignment_points),
                                      fout.document, <<>>)]
    /\ UNCHANGED <<fin, session_vars>>

NextExport == ExportScanner \/ ReadBack

SpecExport == InitExport /\ [][NextExport]_vars

(***************************************************************************)
(* WorkerThread: one task per thread object, one result signal per task.   *)
(* The result is queued to the GUI thread and handled when the event loop  *)
(* gets to it.  A thread's state is "running" until run() has emitted,     *)
(* "emitted" while the result waits in the queue, "delivered" afterwards.  *)
(***************************************************************************)
Running(w) == w # Null /\ w.state = "running"

\* WorkerThread(AnchorDetectionCommand(image)); start()
AnchorWorker(image) ==
    [kind |-> "anchors", state |-> "running", image |-> image, fresh |-> TRUE,
     run |-> Null]

\* WorkerThread(BubbleAnalysisCommand(detector, image, positions)); start()
BubbleWorker(image, positions) ==
    [kind |-> "bubbles", state |-> "running", image |-> image, fresh |-> TRUE,
     run |-> NewRun(ImageOf(image), positions)]

\* AnchorDetectionCommand.execute and the emit of run()
AnchorMessage(w) ==
    [kind |-> "anchors", image |-> w.image, fresh |-> w.fresh,
     thresholds |-> {},
     result |-> detect_anchors_static(ImageOf(w.image), TRUE)]

\* BubbleAnalysisCommand.execute (lines 28-32) and the emit of run(), for a
\* finished analyze_all_bubbles; an exception becomes a failure result
BubbleMessage(w, run) ==
    [kind |-> "bubbles", image |-> w.image, fresh |-> w.fresh,
     thresholds |-> run.thresholds,
     result |-> IF run.raised
                THEN [success |-> FALSE, message |-> [text |-> "str(e)"],
                      results |-> <<>>, answers |-> <<>>]
                ELSE [success |-> TRUE, results |-> Returned(run).results,
                      answers |-> Returned(run).answers]]

\* the message of a worker that runs to its end with the threshold unchanged
FinalMessage(w, threshold) ==
    IF w.kind = "anchors" THEN AnchorMessage(w)
    ELSE BubbleMessage(w, FinishRun(w.run, ANALYSIS_RADIUS, threshold))

\* self.worker, the thread object made last
CurrentWorker(ts) == IF ts = <<>> THEN Null ELSE ts[Len(ts)]

\* threads and queue as they are when a handler goes on without waiting
Await_NoWait(ts, q, threshold) == [threads |-> ts, queue |-> q]

\* "if self.worker.isRunning(): self.worker.quit(); self.worker.wait()":
\* quit() only ends an event loop, which run() never starts, so wait()
\* returns when the task has finished and its result has been queued
Await(ts, q, threshold) ==
    IF Running(CurrentWorker(ts))
    THEN [threads |-> [ts EXCEPT ![Len(ts)].state = "emitted", ![Len(ts)].run = Null],
          queue |-> Append(q, FinalMessage(CurrentWorker(ts), threshold))]
    ELSE [threads |-> ts, queue |-> q]

\* "self.worker = WorkerThread(...)" after the wait: the old thread object
\* loses its last reference.  A result of it that still waits in the queue
\* (it is the last one queued) is either handled later or discarded with the
\* object, depending on how the binding treats queued calls from a destroyed
\* sender.  A thread that still runs goes on running.
Replace(waited, old, discard, new) ==
    [threads |-> Append(IF Running(old) THEN waited.threads
                        ELSE SubSeq(waited.threads, 1, Len(waited.threads) - 1),
                        new),
     queue |-> IF discard /\ old # Null /\ old.state = "emitted"
               THEN SubSeq(waited.queue, 1, Len(waited.queue) - 1)
               ELSE waited.queue]

AfterAwait(waited, discard, new) ==
    Replace(waited, CurrentWorker(waited.threads), discard, new)

\* the wait, then the new thread
Rebind(ts, q, threshold, discard, new) ==
    AfterAwait(Await(ts, q, threshold), discard, new)

\* the handler's effect on the threads and the queue
Started(started) ==
    /\ threads' = started.threads
    /\ queue' = started.queue

\* the outcomes of the rebind for the threads ts
Discards(ts) ==
    IF CurrentWorker(ts) # Null /\ CurrentWorker(ts).state # "delivered"
    THEN BOOLEAN ELSE {FALSE}

(***************************************************************************)
(* ScannerWidget: the handlers of the user's actions.  A click reaches its *)
(* handler only while the button is enabled; hist.budget bounds the number *)
(* of user actions of a session.                                           *)
(***************************************************************************)
CanAct == hist.budget > 0 /\ display.dragging_bubble = <<>>

Spend == [hist EXCEPT !.budget = @ - 1]

\* a task or result from before the image was replaced
Outdated(task) == IF task = Null THEN Null ELSE [task EXCEPT !.fresh = FALSE]

\* load_image with a file that opens; _reset_analysis is its last call
load_image(image) ==
    /\ CanAct
    /\ current_image' = image
    /\ anchors' = <<>>
    /\ omr_data' = Null
    /\ bubble_positions' = <<>>
    /\ analysis_results' = <<>>
    /\ answers' = <<>>
    /\ buttons' = [process_btn |-> TRUE, load_omr_btn |-> FALSE,
                   drag_mode_btn |-> FALSE, drag_checked |-> FALSE]
    /\ threads' = [k \in 1..Len(threads) |-> Outdated(threads[k])]
    /\ queue' = [i \in 1..Len(queue) |-> Outdated(queue[i])]
    /\ hist' = [Spend EXCEPT !.detected = FALSE, !.anchors_fresh = TRUE,
                             !.results_fresh = TRUE, !.results_thresholds = {},
                             !.requested = FALSE, !.awaited = FALSE, !.earlier = <<>>,
                             !.reported = FALSE, !.document = Null,
                             !.correction = <<>>, !.failed = FALSE]
    /\ last' = "load_image"
    /\ UNCHANGED <<filled_threshold, display, fin, fout>>

\* process_image
process_image ==
    /\ CanAct
    /\ buttons.process_btn
    /\ current_image # None
    /\ buttons' = [buttons EXCEPT !.process_btn = FALSE]
    /\ \E discard \in Discards(threads) :
          Started(Rebind(threads, queue, filled_threshold, discard,
                         AnchorWorker(current_image)))
    /\ hist' = [Spend EXCEPT !.awaited = Running(CurrentWorker(threads))]
    /\ last' = "process_image"
    /\ UNCHANGED <<current_image, anchors, omr_data, bubble_positions, filled_threshold,
                   analysis_results, answers, display, fin, fout>>

\* _analyze_bubbles as the last call of a handler that leaves the positions
\* and the threshold as given
analyze_bubbles_Redetecting(positions, threshold) ==
    IF current_image = None \/ positions = <<>>
    THEN UNCHANGED <<threads, queue>>
    ELSE \E discard \in Discards(threads) :
            Started(Rebind(threads, queue, threshold, discard, AnchorWorker(current_image)))

analyze_bubbles(positions, threshold) ==
    IF current_image = None \/ positions = <<>>
    THEN UNCHANGED <<threads, queue>>
    ELSE \E discard \in Discards(threads) :
            Started(Rebind(threads, queue, threshold, discard,
                           BubbleWorker(current_image, positions)))

\* load_omr from line 250 on, for a document json.load has returned: the
\* layout is stored, then mapped; an exception skips _analyze_bubbles and is
\* shown as an error
Loaded(document, outcome) ==
    /\ omr_data' = document
    /\ bubble_positions' = outcome.positions
    /\ IF outcome.raised
       THEN UNCHANGED <<threads, queue>>
       ELSE analyze_bubbles(outcome.positions, filled_threshold)
    /\ hist' = [Spend EXCEPT !.requested = FALSE,
                             !.awaited = Running(CurrentWorker(threads))
                                         /\ ~outcome.raised /\ outcome.positions # <<>>,
                             !.earlier = bubble_positions,
                             !.reported = outcome.raised,
                             !.document = document,
                             !.correction = <<>>]

\* load_omr with the file the user picked
load_omr(document) ==
    /\ CanAct
    /\ buttons.load_omr_btn
    /\ IF "unreadable" \in DOMAIN document
       THEN /\ hist' = [Spend EXCEPT !.reported = TRUE, !.document = document,
                                     !.earlier = bubble_positions]
            /\ UNCHANGED <<omr_data, bubble_positions, threads, queue>>
       ELSE Loaded(document, TransformOutcome(anchors, document, bubble_positions))
    /\ last' = "load_omr"
    /\ UNCHANGED <<current_image, anchors, filled_threshold, analysis_results, answers,
                   buttons, display, fin, fout>>

\* update_threshold, called when the spin box changes to another value
update_threshold(value) ==
    /\ CanAct
    /\ value # filled_threshold
    /\ filled_threshold' = value
    /\ IF bubble_positions # <<>>
       THEN analyze_bubbles(bubble_positions, value)
       ELSE UNCHANGED <<threads, queue>>
    /\ hist' = [Spend EXCEPT !.requested = (bubble_positions # <<>>),
                             !.awaited = Running(CurrentWorker(threads))
                                         /\ bubble_positions # <<>>]
    /\ last' = "update_threshold"
    /\ UNCHANGED <<current_image, anchors, omr_data, bubble_positions, analysis_results,
                   answers, buttons, display, fin, fout>>

\* lines 427-429: the display's copy of the positions
DragCoordinates(positions) ==
    [i \in 1..Len(positions) |->
        <<positions[i][1],
          [j \in 1..Len(positions[i][2]) |->
              <<positions[i][2][j][1],
                [x |-> positions[i][2][j][2][1], y |-> positions[i][2][j][2][2],
                 radius |-> DRAG_BUBBLE_DEFAULT_RADIUS]>>]>>]

\* lines 430-431: the positions are mapped anew when there are none
Remapped(enabled) ==
    /\ enabled
    /\ bubble_positions = <<>>
    /\ Truthy(omr_data)
    /\ "bubble_coordinates" \in DOMAIN omr_data

\* toggle_drag_mode for the new state of the button; an exception of the
\* mapping unchecks the button after set_drag_mode has run
Toggled(enabled, shown, outcome) ==
    /\ buttons' = [buttons EXCEPT !.drag_checked = enabled /\ ~outcome.raised]
    /\ bubble_positions' = outcome.positions
    /\ display' = [display EXCEPT
                      !.drag_mode_enabled = enabled,
                      !.bubble_coordinates =
                          IF shown /\ ~outcome.raised
                          THEN DragCoordinates(outcome.positions) ELSE @]
    /\ hist' = [Spend EXCEPT !.requested = @ /\ outcome.positions = bubble_positions]

\* a click on the drag button, then toggle_drag_mode
toggle_drag_mode ==
    /\ CanAct
    /\ buttons.drag_mode_btn
    /\ Toggled(~buttons.drag_checked,
               ~buttons.drag_checked /\ (bubble_positions # <<>> \/ Remapped(TRUE)),
               IF Remapped(~buttons.drag_checked)
               THEN TransformOutcome(anchors, omr_data, bubble_positions)
               ELSE [positions |-> bubble_positions, raised |-> FALSE])
    /\ last' = "toggle_drag_mode"
    /\ UNCHANGED <<current_image, anchors, omr_data, filled_threshold, analysis_results,
                   answers, threads, queue, fin, fout>>

(***************************************************************************)
(* ZoomableImageLabel: dragging a bubble.  display.dragging_bubble is the  *)
(* question and option of the bubble held, with the number of moves of the *)
(* gesture, or <<>>.                                                       *)
(***************************************************************************)
MaxMoves == 1

\* get_bubble_at_position for a click on the centre of bubble (i, j): the
\* first bubble of the display within its radius of that point
RECURSIVE FirstHit(_, _, _, _, _)
FirstHit(coordinates, px, py, i, j) ==
    IF i > Len(coordinates) THEN <<>>
    ELSE IF j > Len(coordinates[i][2]) THEN FirstHit(coordinates, px, py, i + 1, 1)
    ELSE LET bubble_data == coordinates[i][2][j][2]
             dx == px - bubble_data.x
             dy == py - bubble_data.y
         IN IF dx * dx + dy * dy <= bubble_data.radius * bubble_data.radius
            THEN <<i, j>>
            ELSE FirstHit(coordinates, px, py, i, j + 1)

\* mousePressEvent with the left button on a bubble, drag mode on
mousePressEvent(i, j) ==
    /\ CanAct
    /\ display.drag_mode_enabled
    /\ LET target == display.bubble_coordinates[i][2][j][2]
           hit == FirstHit(display.bubble_coordinates, target.x, target.y, 1, 1)
       IN display' = [display EXCEPT !.dragging_bubble = <<hit[1], hit[2], 0>>]
    /\ hist' = Spend
    /\ last' = "mousePressEvent"
    /\ UNCHANGED <<current_image, anchors, omr_data, bubble_positions, filled_threshold,
                   analysis_results, answers, threads, queue, buttons, fin, fout>>

\* mouseMoveEvent while a bubble is held, zoom factor 1
mouseMoveEvent(delta) ==
    /\ display.dragging_bubble # <<>>
    /\ display.dragging_bubble[3] < MaxMoves
    /\ LET i == display.dragging_bubble[1]
           j == display.dragging_bubble[2]
       IN display' = [display EXCEPT
                         !.bubble_coordinates[i][2][j][2].x = PyAdd(@, delta[1]),
                         !.bubble_coordinates[i][2][j][2].y = PyAdd(@, delta[2]),
                         !.dragging_bubble[3] = @ + 1]
    /\ last' = "mouseMoveEvent"
    /\ UNCHANGED <<current_image, anchors, omr_data, bubble_positions, filled_threshold,
                   analysis_results, answers, threads, queue, buttons, hist, fin, fout>>

\* the positions as they were mapped, whatever the display holds
ConvertedPositions_Mapped(coordinates) == bubble_positions

\* on_bubble_coordinates_updated, line 446-447
ConvertedPositions(coordinates) ==
    [i \in 1..Len(coordinates) |->
        <<coordinates[i][1],
          [j \in 1..Len(coordinates[i][2]) |->
              <<coordinates[i][2][j][1],
                <<coordinates[i][2][j][2].x, coordinates[i][2][j][2].y>> >>]>>]

\* an update that moves the stored offset along with the bubble
UpdatedBubble_Rebased(option_data, data) ==
    [option_data EXCEPT !.x = data.x, !.y = data.y, !.radius = data.radius,
                        !.relative_to_anchor.x = @ + (data.x - option_data.x),
                        !.relative_to_anchor.y = @ + (data.y - option_data.y)]

\* dict.update(data) on one bubble of the layout
UpdatedBubble(option_data, data) ==
    [option_data EXCEPT !.x = data.x, !.y = data.y, !.radius = data.radius]

\* on_bubble_coordinates_updated, lines 449-453
RECURSIVE UpdatedLayout(_, _, _, _)
UpdatedLayout(bubble_coords, coordinates, i, j) ==
    IF i > Len(coordinates) THEN bubble_coords
    ELSE IF j > Len(coordinates[i][2]) THEN UpdatedLayout(bubble_coords, coordinates, i + 1, 1)
    ELSE LET q_str == PyStr(coordinates[i][1])
             opt == coordinates[i][2][j][1]
             data == coordinates[i][2][j][2]
             known == Has(bubble_coords, q_str) /\ Has(Get(bubble_coords, q_str), opt)
             next == IF known
                     THEN Put(bubble_coords, q_str,
                              Put(Get(bubble_coords, q_str), opt,
                                  UpdatedBubble(Get(Get(bubble_coords, q_str), opt), data)))
                     ELSE bubble_coords
         IN UpdatedLayout(next, coordinates, i, j + 1)

\* mouseReleaseEvent while a bubble is held: the callback
\* on_bubble_coordinates_updated, then the bubble is let go
mouseReleaseEvent ==
    /\ display.dragging_bubble # <<>>
    /\ bubble_positions' = ConvertedPositions(display.bubble_coordinates)
    /\ omr_data' = IF Truthy(omr_data) /\ "bubble_coordinates" \in DOMAIN omr_data
                   THEN [omr_data EXCEPT !.bubble_coordinates =
                            UpdatedLayout(@, display.bubble_coordinates, 1, 1)]
                   ELSE omr_data
    /\ display' = [display EXCEPT !.dragging_bubble = <<>>]
    /\ hist' = [hist EXCEPT !.requested = @ /\ bubble_positions' = bubble_positions,
                            !.correction = display.bubble_coordinates]
    /\ last' = "mouseReleaseEvent"
    /\ UNCHANGED <<current_image, anchors, filled_threshold, analysis_results, answers,
                   threads, queue, buttons, fin, fout>>

(***************************************************************************)
(* The worker thread                                                       *)
(***************************************************************************)
\* WorkerThread.run with an AnchorDetectionCommand, in thread k
DetectAnchors(k) ==
    /\ Running(threads[k])
    /\ threads[k].kind = "anchors"
    /\ queue' = Append(queue, AnchorMessage(threads[k]))
    /\ threads' = [threads EXCEPT ![k].state = "emitted"]
    /\ UNCHANGED <<current_image, anchors, omr_data, bubble_positions, filled_threshold,
                   analysis_results, answers, buttons, display, hist, last, fin, fout>>

\* WorkerThread.run with a BubbleAnalysisCommand, in thread k, one bubble
\* further; the detector is shared with the GUI thread, so each bubble is
\* judged with the threshold of its moment.  After the last bubble the
\* result is emitted.
AnalyzeBubble(k) ==
    /\ Running(threads[k])
    /\ threads[k].kind = "bubbles"
    /\ LET run == AnalyzeNext(threads[k].run, ANALYSIS_RADIUS, filled_threshold)
       IN IF RunDone(run)
          THEN /\ queue' = Append(queue, BubbleMessage(threads[k], run))
               /\ threads' = [threads EXCEPT ![k].state = "emitted", ![k].run = Null]
          ELSE /\ queue' = queue
               /\ threads' = [threads EXCEPT ![k].run = run]
    /\ UNCHANGED <<current_image, anchors, omr_data, bubble_positions, filled_threshold,
                   analysis_results, answers, buttons, display, hist, last, fin, fout>>

DetectAnchorsStep == \E k \in 1..Len(threads) : DetectAnchors(k)
AnalyzeBubbleStep == \E k \in 1..Len(threads) : AnalyzeBubble(k)

WorkerStep == DetectAnchorsStep \/ AnalyzeBubbleStep

(***************************************************************************)
(* The GUI thread handles the queued results in the order they were queued *)
(***************************************************************************)
\* the threads once the head of the queue has been handled: the result of
\* self.worker is the last one queued
AfterDelivery(ts, q) ==
    IF CurrentWorker(ts) # Null /\ CurrentWorker(ts).state = "emitted" /\ Len(q) = 1
    THEN [ts EXCEPT ![Len(ts)].state = "delivered"]
    ELSE ts

\* load_omr_btn enabled whatever the result
LoadOmrEnabled_Always(result, enabled) == TRUE

\* lines 234-237: load_omr_btn is enabled on success and left alone otherwise
LoadOmrEnabled(result, enabled) == IF result.success THEN TRUE ELSE enabled

\* on_anchors_detected(result)
on_anchors_detected ==
    /\ queue # <<>>
    /\ Head(queue).kind = "anchors"
    /\ LET message == Head(queue)
           result == message.result
       IN /\ buttons' = [buttons EXCEPT
                            !.process_btn = TRUE,
                            !.load_omr_btn = LoadOmrEnabled(result, @)]
          /\ anchors' = IF result.success THEN result.anchors ELSE anchors
          /\ hist' = [hist EXCEPT
                         !.anchors_fresh = IF result.success THEN message.fresh ELSE @,
                         !.detected = @ \/ message.fresh]
    /\ queue' = Tail(queue)
    /\ threads' = AfterDelivery(threads, queue)
    /\ last' = "on_anchors_detected"
    /\ UNCHANGED <<current_image, omr_data, bubble_positions, filled_threshold,
                   analysis_results, answers, display, fin, fout>>

\* answers taken from every result
AnswersAfter_Always(result, current) == result.answers

\* lines 289-291: both maps are assigned on success only
ResultsAfter(result, current) == IF result.success THEN result.results ELSE current
AnswersAfter(result, current) == IF result.success THEN result.answers ELSE current

\* on_analysis_complete(result)
on_analysis_complete ==
    /\ queue # <<>>
    /\ Head(queue).kind = "bubbles"
    /\ LET message == Head(queue)
           result == message.result
       IN IF result.success
          THEN /\ analysis_results' = ResultsAfter(result, analysis_results)
               /\ answers' = AnswersAfter(result, answers)
               /\ buttons' = [buttons EXCEPT !.drag_mode_btn = TRUE]
               /\ hist' = [hist EXCEPT !.results_fresh = message.fresh,
                                       !.results_thresholds = message.thresholds,
                                       !.failed = FALSE]
          ELSE /\ analysis_results' = ResultsAfter(result, analysis_results)
               /\ answers' = AnswersAfter(result, answers)
               /\ hist' = [hist EXCEPT !.failed = TRUE]
               /\ UNCHANGED buttons
    /\ queue' = Tail(queue)
    /\ threads' = AfterDelivery(threads, queue)
    /\ last' = "on_analysis_complete"
    /\ UNCHANGED <<current_image, anchors, omr_data, bubble_positions, filled_threshold,
                   display, fin, fout>>

Deliver == on_anchors_detected \/ on_analysis_complete

(***************************************************************************)
(* The scanner session                                                     *)
(***************************************************************************)
Init ==
    /\ SessionInit
    /\ fin = Null
    /\ fout = Null

LoadImage == \E image \in Images : load_image(image)
LoadOmr == \E document \in Documents : load_omr(document)
UpdateThreshold == \E value \in SessionThresholds : update_threshold(value)
MousePress ==
    \E i \in 1..Len(display.bubble_coordinates) :
        \E j \in 1..Len(display.bubble_coordinates[i][2]) :
            /\ ~IntRaises(<<display.bubble_coordinates[i][2][j][2].x,
                            display.bubble_coordinates[i][2][j][2].y>>)
            /\ mousePressEvent(i, j)
MouseMove == \E delta \in DragDeltas : mouseMoveEvent(delta)

Next ==
    \/ LoadImage
    \/ process_image
    \/ LoadOmr
    \/ UpdateThreshold
    \/ toggle_drag_mode
    \/ MousePress
    \/ MouseMove
    \/ mouseReleaseEvent
    \/ DetectAnchorsStep
    \/ AnalyzeBubbleStep
    \/ on_anchors_detected
    \/ on_analysis_complete

Spec == Init /\ [][Next]_vars

\* the worker thread is scheduled and the event loop keeps handling events
FairSpec == Spec /\ WF_vars(WorkerStep) /\ WF_vars(Deliver)

(***************************************************************************)
(* Claims                                                                  *)
(***************************************************************************)
\* the output of analyze_all_bubbles for question i of the input
AnswerOf(i) == Get(fout.answers, fin.positions[i][1])
ResultsOf(i) == Get(fout.results, fin.positions[i][1])
OptionsOf(i) == fin.positions[i][2]
ResultOf(i, j) == Get(ResultsOf(i), OptionsOf(i)[j][1])
Gated(r) == r.is_filled /\ r.confidence >= CONFIDENCE_GATE
GatedOptions(i) == {j \in 1..Len(OptionsOf(i)) : Gated(ResultOf(i, j))}

\* C1: the answer of every question is an option whose analysis is filled
\* with confidence >= 0.8, and it is blank when no option of the question
\* is, whatever the darkness scores are.
C1_ConfidenceGate ==
    fout # Null =>
        \A i \in 1..Len(fin.positions) :
            /\ AnswerOf(i) # None =>
                   \E j \in GatedOptions(i) : AnswerOf(i) = OptionsOf(i)[j][1]
            /\ GatedOptions(i) = {} => AnswerOf(i) = None

\* a question left blank although one of its bubbles is darker than the
\* threshold (its confidence is below the gate)
C1_Witness ==
    /\ fout # Null
    /\ \E i \in 1..Len(fin.positions) :
           /\ AnswerOf(i) = None
           /\ \E j \in 1..Len(OptionsOf(i)) :
                  /\ ResultOf(i, j).is_filled
                  /\ ResultOf(i, j).confidence < CONFIDENCE_GATE

\* C2: when several options qualify, the answer is the qualifying option of
\* highest darkness, and among equally dark ones the earliest in option order.
C2_DarkestThenFirst ==
    fout # Null =>
        \A i \in 1..Len(fin.positions) :
            Cardinality(GatedOptions(i)) > 1 =>
                \E j \in GatedOptions(i) :
                    /\ AnswerOf(i) = OptionsOf(i)[j][1]
                    /\ \A k \in GatedOptions(i) :
                           /\ ResultOf(i, k).darkness_score <= ResultOf(i, j).darkness_score
                           /\ k < j => ResultOf(i, k).darkness_score < ResultOf(i, j).darkness_score

\* three qualifying options, the first lighter than the two others, which
\* are equally dark: the answer is the second
C2_Witness ==
    /\ fout # Null
    /\ \E i \in 1..Len(fin.positions) :
           /\ GatedOptions(i) = {1, 2, 3}
           /\ ResultOf(i, 1).darkness_score < ResultOf(i, 2).darkness_score
           /\ ResultOf(i, 2).darkness_score = ResultOf(i, 3).darkness_score
           /\ AnswerOf(i) = OptionsOf(i)[2][1]

\* C3: exactly one option filled with confidence >= 0.8 and every other
\* option unfilled: that option is the answer.
C3_SingleFill ==
    fout # Null =>
        \A i \in 1..Len(fin.positions) :
            \A j \in 1..Len(OptionsOf(i)) :
                ( /\ Gated(ResultOf(i, j))
                  /\ \A k \in 1..Len(OptionsOf(i)) : k # j => ~ResultOf(i, k).is_filled )
                => AnswerOf(i) = OptionsOf(i)[j][1]

\* the last of three options is the only mark
C3_Witness ==
    /\ fout # Null
    /\ \E i \in 1..Len(fin.positions) :
           /\ Len(OptionsOf(i)) = 3
           /\ Gated(ResultOf(i, 3))
           /\ ~ResultOf(i, 1).is_filled /\ ~ResultOf(i, 2).is_filled
           /\ AnswerOf(i) = OptionsOf(i)[3][1]

\* the circular window around (x, y) holds a pixel outside the image
WindowLeavesImage(image, x, y) ==
    \E dx, dy \in (0 - ANALYSIS_RADIUS)..ANALYSIS_RADIUS :
        /\ dx * dx + dy * dy <= ANALYSIS_RADIUS * ANALYSIS_RADIUS
        /\ ~( /\ 0 <= x + dx /\ x + dx < image.width
              /\ 0 <= y + dy /\ y + dy < image.height )

\* C7: a bubble whose sampling window would read outside the image gets
\* exactly (0.0, False, 0.0), and no analysis reads a pixel outside the image.
C7_BoundsRejection ==
    fout # Null =>
        \A i \in 1..Len(fin.positions) : \A j \in 1..Len(OptionsOf(i)) :
            LET x == OptionsOf(i)[j][2][1]
                y == OptionsOf(i)[j][2][2]
                reads == WindowReads(fin.image, x, y, ANALYSIS_RADIUS)
            IN /\ WindowLeavesImage(fin.image, x, y) => ResultOf(i, j) = SafeDefault
               /\ \A n \in 1..Len(reads) :
                      /\ 0 <= reads[n][1] /\ reads[n][1] < fin.image.height
                      /\ 0 <= reads[n][2] /\ reads[n][2] < fin.image.width

\* a bubble on dark pixels, one pixel too close to the left edge, rejected
C7_Witness ==
    /\ fout # Null
    /\ \E i \in 1..Len(fin.positions) : \E j \in 1..Len(OptionsOf(i)) :
           /\ OptionsOf(i)[j][2][1] = ANALYSIS_RADIUS - 1
           /\ OptionsOf(i)[j][2][2] = ANALYSIS_RADIUS
           /\ PixelOf(fin.image, 0, 0) = 0
           /\ ResultOf(i, j) = SafeDefault

\* C4 (as stated): with OpenCV at hand, either detector reports success when
\* at least 3 anchors are resolved and otherwise reports failure with the
\* number it resolved in the message.
C4_SuccessFromThree ==
    (fout # Null /\ fin.cv2) =>
        LET result == fout.result
            resolved == Len(result.anchors)
        IN /\ resolved >= 3 => result.success
           /\ resolved < 3 =>
                 /\ ~result.success
                 /\ "n" \in DOMAIN result.message
                 /\ result.message.n = resolved

\* C5 (as stated): once the detection of a sheet with exactly three printed
\* anchors has been handled, the session holds exactly those three anchors
\* and lets the layout be loaded, and load_omr positions exactly the bubbles
\* that hang on one of the three.
PartialSheet == current_image # None /\ Cardinality(PrintedOn(current_image)) = 3

LayoutBubbles ==
    UNION {{<<PyInt(omr_data.bubble_coordinates[i][1]),
              omr_data.bubble_coordinates[i][2][j][1],
              omr_data.bubble_coordinates[i][2][j][2].relative_to_anchor>> :
               j \in 1..Len(omr_data.bubble_coordinates[i][2])} :
           i \in 1..Len(BubbleCoordinates(omr_data))}

Positioned(positions) ==
    UNION {{<<positions[i][1], positions[i][2][j][1]>> : j \in 1..Len(positions[i][2])} :
           i \in 1..Len(positions)}

PositionedBubbles == Positioned(bubble_positions)

C5_PartialTolerance ==
    (PartialSheet /\ hist.detected /\ hist.anchors_fresh) =>
        /\ buttons.load_omr_btn
        /\ KeySet(anchors) = PrintedOn(current_image)
        /\ (last = "load_omr" /\ ~hist.reported) =>
              \A b \in LayoutBubbles :
                  <<b[1], b[2]>> \in PositionedBubbles <=> b[3].anchor \in PrintedOn(current_image)

\* C6: when load_omr has run _transform_coordinates to its end, every bubble of the
\* layout whose anchor name is among the detected anchors is positioned at
\* the anchor's position plus its offset, every other bubble of the layout
\* has no entry in bubble_positions, and nothing else has one.
PositionOf(q_num, option) == Get(Get(bubble_positions, q_num), option)

C6_AnchorPlusOffset ==
    (last = "load_omr" /\ ~hist.reported) =>
        /\ \A b \in LayoutBubbles :
              IF Has(anchors, b[3].anchor)
              THEN /\ <<b[1], b[2]>> \in PositionedBubbles
                   /\ PositionOf(b[1], b[2]) =
                          <<PyAdd(Get(anchors, b[3].anchor).x, b[3].x),
                            PyAdd(Get(anchors, b[3].anchor).y, b[3].y)>>
              ELSE <<b[1], b[2]>> \notin PositionedBubbles
        /\ PositionedBubbles \subseteq {<<b[1], b[2]>> : b \in LayoutBubbles}

\* a second layout has been loaded: one of its bubbles is positioned, another
\* names an anchor that was not detected and had a position under the first
C6_Witness ==
    /\ last = "load_omr"
    /\ ~hist.reported
    /\ \E b \in LayoutBubbles :
          /\ ~Has(anchors, b[3].anchor)
          /\ <<b[1], b[2]>> \in Positioned(hist.earlier)
          /\ <<b[1], b[2]>> \notin PositionedBubbles
    /\ \E b \in LayoutBubbles : <<b[1], b[2]>> \in PositionedBubbles

\* C8 (as stated, its safety part): once update_threshold has asked for a
\* re-analysis of the positioned bubbles, the session does not come to rest
\* (no task running, no result waiting) unless every positioned question has
\* an answer and every answer was judged with the latest threshold.
Quiescent ==
    /\ queue = <<>>
    /\ \A k \in 1..Len(threads) : ~Running(threads[k])

LatestAnswers ==
    /\ KeySet(bubble_positions) \subseteq KeySet(answers)
    /\ hist.results_thresholds \subseteq {filled_threshold}

RunningTasks == {k \in 1..Len(threads) : Running(threads[k])}

C9_OneRunningTask == Cardinality(RunningTasks) <= 1

\* a handler has just started a task after it found one running
C9_Witness ==
    /\ last \in {"process_image", "load_omr", "update_threshold"}
    /\ hist.awaited
    /\ Cardinality(RunningTasks) = 1

\* C10 (as stated): the anchors, the analysis results and the answers of the
\* session all stem from tasks started after the last load_image.
C10_PerImageState ==
    /\ anchors # <<>> => hist.anchors_fresh
    /\ (analysis_results # <<>> \/ answers # <<>>) => hist.results_fresh

\* C11 (as stated): a run with a bubble that cannot be analysed is not
\* aborted: it returns an answer for every question and a result for every
\* bubble, and the result of the bad bubble is (0.0, False, 0.0).
BadBubble(image, xy) ==
    \/ IntRaises(xy)
    \/ Corrupt(image)
    \/ OutOfBounds(image, xy[1], xy[2], ANALYSIS_RADIUS)

C11_FailureIsolation ==
    fout # Null =>
        /\ ~fout.raised
        /\ \A i \in 1..Len(fin.positions) :
              /\ Has(fout.answers, fin.positions[i][1])
              /\ Has(fout.results, fin.positions[i][1])
              /\ \A j \in 1..Len(OptionsOf(i)) :
                    /\ Has(ResultsOf(i), OptionsOf(i)[j][1])
                    /\ BadBubble(fin.image, OptionsOf(i)[j][2]) => ResultOf(i, j) = SafeDefault

\* C12 (as stated): a load_omr whose file is unreadable, whose content makes
\* the mapping raise, or whose document has no bubble_coordinates reports an
\* error and leaves omr_data, bubble_positions, analysis_results and answers
\* as they were.
LoadOmrStep == last' = "load_omr" /\ hist'.budget = hist.budget - 1

FailedLoad(document) ==
    \/ "unreadable" \in DOMAIN document
    \/ "bubble_coordinates" \notin DOMAIN document
    \/ TransformOutcome(anchors, document, bubble_positions).raised

C12_FailedLoadKeepsState ==
    [][(LoadOmrStep /\ FailedLoad(hist'.document)) =>
           /\ hist'.reported
           /\ omr_data' = omr_data
           /\ bubble_positions' = bubble_positions
           /\ analysis_results' = analysis_results
           /\ answers' = answers]_vars

\* C13: when on_anchors_detected handles a failed detection, the result is
\* a record with success False and a message, the anchors, the layout, the
\* positions, the results and the answers stay as they are, load_omr_btn
\* stays as it is, and process_btn is enabled again.
FailedDetectionStep ==
    /\ queue # <<>>
    /\ Head(queue).kind = "anchors"
    /\ ~Head(queue).result.success
    /\ queue' = Tail(queue)
    /\ last' = "on_anchors_detected"

C13_FailedDetectionFrame ==
    [][FailedDetectionStep =>
           /\ "message" \in DOMAIN Head(queue).result
           /\ anchors' = anchors
           /\ omr_data' = omr_data
           /\ bubble_positions' = bubble_positions
           /\ analysis_results' = analysis_results
           /\ answers' = answers
           /\ buttons'.load_omr_btn = buttons.load_omr_btn
           /\ buttons'.process_btn]_vars

\* the failed detection of a sheet without anchors has been handled
C13_Witness ==
    /\ last = "on_anchors_detected"
    /\ current_image = "blank"
    /\ hist.detected
    /\ ~buttons.load_omr_btn
    /\ buttons.process_btn
    /\ anchors = <<>>

\* C14: when on_analysis_complete installs the result of a completed
\* analysis, every question of the layout's bubble_coordinates has an entry
\* in answers, an option letter or None.
CompletedAnalysisStep ==
    /\ queue # <<>>
    /\ Head(queue).kind = "bubbles"
    /\ Head(queue).result.success
    /\ queue' = Tail(queue)
    /\ last' = "on_analysis_complete"

LayoutQuestions ==
    IF Truthy(omr_data) /\ "bubble_coordinates" \in DOMAIN omr_data
    THEN Keys(omr_data.bubble_coordinates)
    ELSE <<>>

OptionLetters ==
    UNION {UNION {KeySet(layout.bubble_coordinates[i][2]) :
                      i \in 1..Len(layout.bubble_coordinates)} : layout \in Layouts}

Answered(q_str) ==
    /\ IsIntKey(q_str)
    /\ Has(answers, PyInt(q_str))
    /\ \/ Get(answers, PyInt(q_str)) = None
       \/ Get(answers, PyInt(q_str)) \in OptionLetters

C14_EveryQuestionAnswered ==
    [][CompletedAnalysisStep =>
           (\A i \in 1..Len(LayoutQuestions) : Answered(LayoutQuestions[i]))']_vars

\* C15: over the calls made on one bubble sample, is_filled is
\* darkness_score >= filled_threshold: a call with a higher threshold never
\* reports filled when one with a lower threshold reports unfilled, and a
\* sample whose darkness equals the threshold is filled.
Sampled ==
    /\ ~Corrupt(fin.image)
    /\ ~OutOfBounds(fin.image, fin.center_x, fin.center_y, ANALYSIS_RADIUS)

Samples == Len(SampleCoords(fin.center_x, fin.center_y, ANALYSIS_RADIUS, 0))

DarknessEquals(call) ==
    100 * call.result.darkness_score = call.threshold * 255 * Samples

DarknessAtLeast(call) ==
    100 * call.result.darkness_score >= call.threshold * 255 * Samples

C15_ThresholdMonotone ==
    /\ \A i, j \in 1..Len(fout.calls) :
           (fout.calls[i].threshold <= fout.calls[j].threshold
                /\ fout.calls[j].result.is_filled)
               => fout.calls[i].result.is_filled
    /\ Sampled =>
           \A i \in 1..Len(fout.calls) :
               /\ fout.calls[i].result.is_filled = DarknessAtLeast(fout.calls[i])
               /\ DarknessEquals(fout.calls[i]) => fout.calls[i].result.is_filled

\* one sample judged at its own darkness (filled) and above it (unfilled)
C15_Witness ==
    /\ Sampled
    /\ \E i, j \in 1..Len(fout.calls) :
           /\ DarknessEquals(fout.calls[i])
           /\ fout.calls[i].result.is_filled
           /\ fout.calls[j].threshold > fout.calls[i].threshold
           /\ ~fout.calls[j].result.is_filled

\* C16: a call of analyze_bubble leaves the image and the detector's
\* configuration as they were, and calls with the same image, centre, radius
\* and threshold return the same BubbleAnalysisResult.
BubbleCallStep == Len(fout'.calls) = Len(fout.calls) + 1

SameResults ==
    \A i, j \in 1..Len(fout.calls) :
        fout.calls[i].threshold = fout.calls[j].threshold
            => fout.calls[i].result = fout.calls[j].result

ExportedBubbles ==
    UNION {{<<i, j>> : j \in 1..Len(fout.document.bubble_coordinates[i][2])} :
               i \in 1..Len(fout.document.bubble_coordinates)}

StoredAt(b) ==
    <<fout.document.bubble_coordinates[b[1]][2][b[2]][2].x,
      fout.document.bubble_coordinates[b[1]][2][b[2]][2].y>>

MappedTo(b) ==
    Get(Get(fout.positions, PyInt(fout.document.bubble_coordinates[b[1]][1])),
        fout.document.bubble_coordinates[b[1]][2][b[2]][1])

C17_ExportRoundTrip ==
    fout.stage = "mapped" =>
        /\ Len(fout.positions) = Len(fin.form)
        /\ \A b \in ExportedBubbles :
               /\ Has(fout.positions, PyInt(fout.document.bubble_coordinates[b[1]][1]))
               /\ Has(Get(fout.positions, PyInt(fout.document.bubble_coordinates[b[1]][1])),
                      fout.document.bubble_coordinates[b[1]][2][b[2]][1])
               /\ MappedTo(b) = StoredAt(b)

\* a form of three questions, the last with four options, mapped back
C17_Witness ==
    /\ fout.stage = "mapped"
    /\ Len(fin.form) = 3
    /\ fin.form[3] = 4
    /\ <<3, 4>> \in ExportedBubbles
    /\ MappedTo(<<3, 4>>) = StoredAt(<<3, 4>>)
    /\ StoredAt(<<3, 4>>) = <<75 + 120 + 3 * 120, 75 + 380 + 2 * 90>>

\* C18: when update_threshold starts the next analysis after a drag
\* correction of the current image and layout, the task starts on the
\* current image with every bubble at the coordinate the display held when
\* the bubble was released.
AnalysisAfterCorrection ==
    /\ last' = "update_threshold"
    /\ hist'.budget = hist.budget - 1
    /\ hist.correction # <<>>

HandedPositions(ts) == CurrentWorker(ts).run.positions

AtCorrected(positions, coordinates) ==
    \A i \in 1..Len(coordinates) : \A j \in 1..Len(coordinates[i][2]) :
        /\ Has(positions, coordinates[i][1])
        /\ Has(Get(positions, coordinates[i][1]), coordinates[i][2][j][1])
        /\ Get(Get(positions, coordinates[i][1]), coordinates[i][2][j][1])
               = <<coordinates[i][2][j][2].x, coordinates[i][2][j][2].y>>

C18_CorrectionReachesAnalysis ==
    [][AnalysisAfterCorrection =>
           /\ Running(CurrentWorker(threads'))
           /\ CurrentWorker(threads').kind = "bubbles"
           /\ CurrentWorker(threads').run.image = ImageOf(current_image)
           /\ CurrentWorker(threads').run.qi = 1
           /\ AtCorrected(HandedPositions(threads'), hist.correction)]_vars

\* an analysis started by update_threshold on positions that a drag moved
\* away from the mapped ones
C18_Witness ==
    /\ last = "update_threshold"
    /\ hist.correction # <<>>
    /\ ~hist.reported
    /\ anchors # <<>>
    /\ Truthy(omr_data)
    /\ Running(CurrentWorker(threads))
    /\ AtCorrected(HandedPositions(threads), hist.correction)
    /\ HandedPositions(threads) # transform_coordinates(anchors, omr_data, <<>>)

\* C19: on_bubble_coordinates_updated leaves the layout document with the
\* same questions and options, and every bubble of it with the
\* relative_to_anchor (x, y, anchor) it had.
CorrectionStep ==
    /\ last' = "mouseReleaseEvent"
    /\ display.dragging_bubble # <<>>
    /\ display'.dragging_bubble = <<>>

HasLayout == Truthy(omr_data) /\ "bubble_coordinates" \in DOMAIN omr_data

Offsets(data) ==
    [i \in 1..Len(data.bubble_coordinates) |->
        <<data.bubble_coordinates[i][1],
          [j \in 1..Len(data.bubble_coordinates[i][2]) |->
              <<data.bubble_coordinates[i][2][j][1],
                data.bubble_coordinates[i][2][j][2].relative_to_anchor>>]>>]

C19_CorrectionKeepsOffsets ==
    [][(CorrectionStep /\ HasLayout) =>
           /\ Truthy(omr_data') /\ "bubble_coordinates" \in DOMAIN omr_data'
           /\ Offsets(omr_data') = Offsets(omr_data)]_vars

\* a correction has moved the stored position of a bubble of the layout away
\* from its anchor plus offset
C19_Witness ==
    /\ last = "mouseReleaseEvent"
    /\ HasLayout
    /\ ~hist.reported
    /\ \E i \in 1..Len(omr_data.bubble_coordinates) :
           \E j \in 1..Len(omr_data.bubble_coordinates[i][2]) :
               LET option_data == omr_data.bubble_coordinates[i][2][j][2]
               IN /\ Has(anchors, option_data.relative_to_anchor.anchor)
                  /\ <<option_data.x, option_data.y>> # AnchoredPosition(option_data, anchors)
                  /\ <<option_data.x, option_data.y>>
                         = Get(Get(bubble_positions, PyInt(omr_data.bubble_coordinates[i][1])),
                               omr_data.bubble_coordinates[i][2][j][1])

\* C20: in every state of the session, bubble positions are present only
\* with an image, detected anchors and a loaded layout, and analysis results
\* or answers only with bubble positions.
ImagePresent == current_image # None
AnchorsPresent == anchors # <<>>
LayoutPresent == Truthy(omr_data)
PositionsPresent == bubble_positions # <<>>
ResultsPresent == analysis_results # <<>> \/ answers # <<>>

C20_StageOrder ==
    /\ PositionsPresent => (ImagePresent /\ AnchorsPresent /\ LayoutPresent)
    /\ ResultsPresent => PositionsPresent

\* C21: every anchor a detector returns lies within the sanity distance
\* (the legacy detector's 100 px) of the position expected for its name.
ExpectedAt(name) ==
    Get(Expected(fin.image, ANCHOR_MARGIN, ANCHOR_SIZE), name)

WithinSanityDistance(name, anchor) ==
    CornerDist2([x |-> anchor.x, y |-> anchor.y], ExpectedAt(name))
        < LEGACY_MAX_DIST * LEGACY_MAX_DIST

C21_BoundedMatch ==
    (fout # Null /\ fin.cv2) =>
        \A k \in 1..Len(fout.result.anchors) :
            WithinSanityDistance(fout.result.anchors[k][1], fout.result.anchors[k][2])

\* C22: the layout the session holds always has a bubble_coordinates
\* section, and a load_omr of a document without one has shown an error.
LacksCoordinates(document) ==
    /\ document # Null
    /\ "unreadable" \notin DOMAIN document
    /\ "bubble_coordinates" \notin DOMAIN document

C22_LayoutNeedsCoordinates ==
    /\ LayoutPresent => "bubble_coordinates" \in DOMAIN omr_data
    /\ (last = "load_omr" /\ LacksCoordinates(hist.document)) => hist.reported

\* C23: update_threshold leaves the image, the anchors, the layout and the
\* bubble positions as they are; with bubbles positioned the task it starts
\* is a bubble analysis on those positions, and without it starts none.
ThresholdStep ==
    /\ last' = "update_threshold"
    /\ hist'.budget = hist.budget - 1

C23_ThresholdReanalysesOnly ==
    [][ThresholdStep =>
           /\ current_image' = current_image
           /\ anchors' = anchors
           /\ omr_data' = omr_data
           /\ bubble_positions' = bubble_positions
           /\ IF PositionsPresent /\ ImagePresent
              THEN /\ CurrentWorker(threads').kind = "bubbles"
                   /\ HandedPositions(threads') = bubble_positions
              ELSE threads' = threads /\ queue' = queue]_vars

\* a threshold change has started an analysis of the positioned bubbles
C23_Witness ==
    /\ last = "update_threshold"
    /\ PositionsPresent
    /\ AnchorsPresent
    /\ LayoutPresent
    /\ filled_threshold # FILLED_THRESHOLD
    /\ Running(CurrentWorker(threads))
    /\ CurrentWorker(threads).kind = "bubbles"
    /\ CurrentWorker(threads).run.qi = 1
    /\ CurrentWorker(threads).run.oi = 1

\* C24: in every state with bubble positions and no drag correction since
\* the last mapping, the positions are the ones the current anchors and the
\* current layout give: anchor (x, y) plus relative offset for every bubble.
Uncorrected == hist.correction = <<>>

MappedNow ==
    TransformQuestions(BubbleCoordinates(omr_data), anchors, 1, <<>>).positions

C24_PositionsFollowAnchorsAndLayout ==
    (PositionsPresent /\ Uncorrected) =>
        /\ AnchorsPresent
        /\ LayoutPresent
        /\ bubble_positions = MappedNow

\* C25: in every state analysis_results and answers cover the same
\* questions and every answer is the selection among the results of its
\* question (None exactly when no result of the question passes the gate),
\* and handling a failed analysis replaces neither map.
PassesGate(result) == result.is_filled /\ result.confidence >= CONFIDENCE_GATE

SameRun ==
    /\ Keys(analysis_results) = Keys(answers)
    /\ \A i \in 1..Len(answers) :
           LET results == analysis_results[i][2]
               answer == answers[i][2]
           IN IF \E j \in 1..Len(results) : PassesGate(results[j][2])
              THEN Has(results, answer) /\ PassesGate(Get(results, answer))
              ELSE answer = None

FailedAnalysisStep ==
    /\ queue # <<>>
    /\ Head(queue).kind = "bubbles"
    /\ ~Head(queue).result.success
    /\ queue' = Tail(queue)
    /\ last' = "on_analysis_complete"

C25_SwappedTogether ==
    /\ []SameRun
    /\ [][FailedAnalysisStep =>
              /\ analysis_results' = analysis_results
              /\ answers' = answers]_vars

\* answers of an earlier analysis are in place when a failed one is handled
C25_Witness ==
    /\ last = "on_analysis_complete"
    /\ hist.failed
    /\ answers # <<>>
    /\ \E i \in 1..Len(answers) : answers[i][2] # None
    /\ SameRun

\* C26: a drag correction leaves the set of positioned (question, option)
\* bubbles as it is and changes the position of no bubble other than the
\* one that was dragged.
DraggedBubble ==
    <<display.bubble_coordinates[display.dragging_bubble[1]][1],
      display.bubble_coordinates[display.dragging_bubble[1]][2][display.dragging_bubble[2]][1]>>

C26_CorrectionTouchesOneBubble ==
    [][CorrectionStep =>
           /\ Keys(bubble_positions') = Keys(bubble_positions)
           /\ Positioned(bubble_positions') = Positioned(bubble_positions)
           /\ \A b \in Positioned(bubble_positions) \ {DraggedBubble} :
                  Get(Get(bubble_positions', b[1]), b[2])
                      = Get(Get(bubble_positions, b[1]), b[2])]_vars

\* C27: the analysis_results/answers pair in place was judged with one
\* filled_threshold value for all of its bubbles.
C27_OneThresholdPerResult ==
    ResultsPresent => Cardinality(hist.results_thresholds) <= 1

\* C28: in every step in which a started task stops running, its one result
\* is queued for its handler, a success or a failure with a message; and a
\* queued result leaves the queue only by being handled.
EndedTasks ==
    {k \in 1..Len(threads) :
         /\ Running(threads[k])
         /\ ~(k <= Len(threads') /\ Running(threads'[k]))}

WellFormed(message) ==
    /\ "success" \in DOMAIN message.result
    /\ ~message.result.success => "message" \in DOMAIN message.result

HandlerStep ==
    /\ queue # <<>>
    /\ queue' = Tail(queue)
    /\ last' \in {"on_anchors_detected", "on_analysis_complete"}

ClearedByLoad ==
    /\ ~AnchorsPresent
    /\ ~LayoutPresent
    /\ ~PositionsPresent
    /\ ~ResultsPresent
    /\ ~buttons.load_omr_btn

LayoutLoadingEnabledStep ==
    /\ ~buttons.load_omr_btn
    /\ buttons'.load_omr_btn

C29_LoadImageClears ==
    /\ [](last = "load_image" => ClearedByLoad)
    /\ [][LayoutLoadingEnabledStep =>
              /\ queue # <<>>
              /\ Head(queue).kind = "anchors"
              /\ Head(queue).result.success
              /\ Head(queue).fresh]_vars

\* C30: the anchors mapping the package detector returns holds none of the
\* four names or all of them, all of them exactly when at least one contour
\* passes the square filter.
PackageResult == fout # Null /\ fout.detector = "package"

C30_AllOrNothing ==
    PackageResult =>
        /\ Len(fout.result.anchors) \in {0, 4}
        /\ Len(fout.result.anchors) = 4 =>
               /\ KeySet(fout.result.anchors) = {AnchorNames[i] : i \in 1..Len(AnchorNames)}
               /\ fout.result.success
        /\ fin.cv2 => (Len(fout.result.anchors) = 4 <=> Candidates(fin.image) # <<>>)

\* one contour alone passes the filter and every name is matched to it
C30_Witness ==
    /\ PackageResult
    /\ Len(Candidates(fin.image)) = 1
    /\ Cardinality(fin.printed) = 1
    /\ Len(fout.result.anchors) = 4
    /\ \A k \in 1..4 : fout.result.anchors[k][2] = AnchorRecord(Candidates(fin.image)[1])

====
